---- MODULE Spec2Model ----
(***************************************************************************)
(* PromptBuilder (src/src/builder.ts): a tree of sections, named groups    *)
(* and oneOf alternative-sets, mutated by use / useOneOf / group / without *)
(* / fork and rendered by build / buildWithMeta.                           *)
(*                                                                         *)
(* JavaScript arrays are objects with identity: a builder's `nodes`, a     *)
(* group's `children` and a oneOf's `candidates` are references.  The      *)
(* model keeps every array in `heap` and stores addresses in the nodes, so *)
(* that sharing between builders is something the checks can observe.      *)
(* Strings are sequences of one-character strings.                         *)
(***************************************************************************)
EXTENDS Integers, Sequences, FiniteSets, TLC

VARIABLES heap, root, steps, last, out, calls

vars == <<heap, root, steps, last, out, calls>>

\* Number of calls made on the builders in one run.
MaxSteps == 3

-----------------------------------------------------------------------------
(* Contexts, sections and the inputs of the operations                      *)

\* PromptContext: flags (one boolean flag) and vars (unused by the sections here).
Contexts == {[flag |-> TRUE], [flag |-> FALSE]}

\* PromptFormat = 'text' | 'xml'
Formats == {"text", "xml"}

\* A PromptSection: id, optional `when` guard, `render`.  The functions are
\* named by kind; callWhen and callRender below give their values.
PromptSection(id, when, render) == [id |-> id, when |-> when, render |-> render]

secA == PromptSection("a", "absent", "x")
secA2 == PromptSection("a", "flag", "sp_y")
secB == PromptSection("b", "absent", "z_if_flag")
\* The one section that sets the optional `priority` (the others leave it out).
secC == [id |-> "c", when |-> "notflag", render |-> "w", priority |-> -1]
\* Its guard throws under the flag; without the flag its render throws.
secT == PromptSection("t", "throws_if_flag", "throws")

Sections == {secA, secA2, secB, secC, secT}

Ids == {"a", "b", "c", "g", "h", "t"}

\* section.when(ctx) throws instead of returning.
whenThrows(section, ctx) == section.when = "throws_if_flag" /\ ctx.flag

\* section.when(ctx), when it returns.
callWhen(section, ctx) ==
  CASE section.when = "flag" -> ctx.flag
    [] section.when = "notflag" -> ~ctx.flag
    [] section.when = "throws_if_flag" -> TRUE

\* section.render(ctx) throws instead of returning.
renderThrows(section, ctx) == section.render = "throws"

\* The error object a throwing guard or render of the section throws.
sectionError(section) == <<"boom", section.id>>

\* section.render(ctx); section() of section.ts maps a null render to ''.
callRender(section, ctx) ==
  CASE section.render = "x" -> <<"x">>
    [] section.render = "sp_y" -> <<" ", "y">>
    [] section.render = "z_if_flag" -> IF ctx.flag THEN <<"z", "\n">> ELSE <<>>
    [] section.render = "w" -> <<"w">>

-----------------------------------------------------------------------------
(* The three node variants and their discriminators                         *)

isSection(node) == "render" \in DOMAIN node

isGroup(node) == "children" \in DOMAIN node

isOneOf(node) == "candidates" \in DOMAIN node

\* Array.prototype.findIndex with the predicate of use and group; 0 stands for -1.
findIndex(nodes, id) ==
  LET hits == {i \in 1..Len(nodes) : ~isOneOf(nodes[i]) /\ nodes[i].id = id}
  IN IF hits = {} THEN 0 ELSE CHOOSE i \in hits : \A j \in hits : i <= j

-----------------------------------------------------------------------------
(* Mutation API; a builder is named by the address of its `nodes` array     *)

\* use as it would be without the search for a node to replace.
useAppending(h, a, section) == [h EXCEPT ![a] = Append(@, section)]

\* PromptBuilder.use
use(h, a, section) ==
  LET idx == findIndex(h[a], section.id)
  IN IF idx > 0
       THEN [h EXCEPT ![a][idx] = section]
       ELSE [h EXCEPT ![a] = Append(@, section)]

\* useOneOf as it would be if it pushed the candidates onto an alternative-set
\* that is the last node, in place of appending a new node.
useOneOfMerging(h, a, candidates) ==
  IF h[a] # <<>> /\ isOneOf(h[a][Len(h[a])])
    THEN [h EXCEPT ![h[a][Len(h[a])].candidates] = @ \o candidates]
    ELSE LET c == Len(h) + 1
         IN [Append(h, candidates) EXCEPT ![a] = Append(@, [candidates |-> c])]

\* PromptBuilder.useOneOf; the rest parameter `candidates` is a fresh array.
useOneOf(h, a, candidates) ==
  LET c == Len(h) + 1
  IN [Append(h, candidates) EXCEPT ![a] = Append(@, [candidates |-> c])]

\* A configure callback is the sequence of calls it makes on the builder it
\* is handed: [op |-> "use", section |-> s], [op |-> "useOneOf", candidates
\* |-> cs] or [op |-> "group", id |-> i, configure |-> calls].
RECURSIVE group(_, _, _, _), configureInner(_, _, _)

\* PromptBuilder.group: `inner` is a new builder whose nodes array becomes,
\* unchanged and uncopied, the children array of the group.
group(h, a, id, configure) ==
  LET inner == Len(h) + 1
      h1 == configureInner(Append(h, <<>>), inner, configure)
      grp == [id |-> id, children |-> inner]
      idx == findIndex(h1[a], id)
  IN IF idx > 0
       THEN [h1 EXCEPT ![a][idx] = grp]
       ELSE [h1 EXCEPT ![a] = Append(@, grp)]

\* configure(inner): the calls of the callback, in order.
configureInner(h, inner, configure) ==
  IF configure = <<>>
    THEN h
    ELSE LET c == Head(configure)
             h1 == CASE c.op = "use" -> use(h, inner, c.section)
                      [] c.op = "useOneOf" -> useOneOf(h, inner, c.candidates)
                      [] c.op = "group" -> group(h, inner, c.id, c.configure)
         IN configureInner(h1, inner, Tail(configure))

RECURSIVE removeNode(_, _, _), removeLoop(_, _, _, _)

\* removeLoop as it would be if alternative-sets were kept as they are.
removeLoopKeepingCandidates(h, nodes, id, result) ==
  IF nodes = <<>>
    THEN [heap |-> h, result |-> result]
    ELSE LET n == Head(nodes) IN
      IF isSection(n)
        THEN removeLoop(h, Tail(nodes), id,
                        IF n.id # id THEN Append(result, n) ELSE result)
      ELSE IF isGroup(n)
        THEN IF n.id # id
               THEN LET r == removeNode(h, n.children, id)
                    IN removeLoop(r.heap, Tail(nodes), id,
                                  Append(result, [n EXCEPT !.children = r.addr]))
               ELSE removeLoop(h, Tail(nodes), id, result)
      ELSE removeLoop(h, Tail(nodes), id, Append(result, n))

\* removeLoop as it would be without the test `remaining.length > 0`.
removeLoopKeepingEmptySets(h, nodes, id, result) ==
  IF nodes = <<>>
    THEN [heap |-> h, result |-> result]
    ELSE LET n == Head(nodes) IN
      IF isSection(n)
        THEN removeLoop(h, Tail(nodes), id,
                        IF n.id # id THEN Append(result, n) ELSE result)
      ELSE IF isGroup(n)
        THEN IF n.id # id
               THEN LET r == removeNode(h, n.children, id)
                    IN removeLoop(r.heap, Tail(nodes), id,
                                  Append(result, [n EXCEPT !.children = r.addr]))
               ELSE removeLoop(h, Tail(nodes), id, result)
      ELSE LET remaining == SelectSeq(h[n.candidates], LAMBDA c : c.id # id)
           IN removeLoop(Append(h, remaining), Tail(nodes), id,
                         Append(result, [candidates |-> Len(h) + 1]))

\* The for loop of removeNode over the rest of `nodes`, with `result` so far.
removeLoop(h, nodes, id, result) ==
  IF nodes = <<>>
    THEN [heap |-> h, result |-> result]
    ELSE LET n == Head(nodes) IN
      IF isSection(n)
        THEN removeLoop(h, Tail(nodes), id,
                        IF n.id # id THEN Append(result, n) ELSE result)
      ELSE IF isGroup(n)
        THEN IF n.id # id
               THEN LET r == removeNode(h, n.children, id)
                    IN removeLoop(r.heap, Tail(nodes), id,
                                  Append(result, [n EXCEPT !.children = r.addr]))
               ELSE removeLoop(h, Tail(nodes), id, result)
      ELSE LET remaining == SelectSeq(h[n.candidates], LAMBDA c : c.id # id)
           IN IF Len(remaining) > 0
                THEN removeLoop(Append(h, remaining), Tail(nodes), id,
                                Append(result, [candidates |-> Len(h) + 1]))
                ELSE removeLoop(h, Tail(nodes), id, result)

\* removeNode: builds a new array and never writes to the one it reads.
removeNode(h, a, id) ==
  LET r == removeLoop(h, h[a], id, <<>>)
  IN [heap |-> Append(r.heap, r.result), addr |-> Len(r.heap) + 1]

RECURSIVE deepCopy(_, _), deepCopyMap(_, _, _)

\* deepCopy as it would be if fork handed over the array itself.
deepCopyShared(h, a) == [heap |-> h, addr |-> a]

\* deepCopyMap as it would be if a group were copied without its children.
deepCopyMapFlat(h, nodes, copied) ==
  IF nodes = <<>>
    THEN [heap |-> h, result |-> copied]
    ELSE LET n == Head(nodes) IN
      IF isGroup(n)
        THEN deepCopyMap(Append(h, <<>>), Tail(nodes),
                         Append(copied, [n EXCEPT !.children = Len(h) + 1]))
      ELSE IF isOneOf(n)
        THEN deepCopyMap(Append(h, h[n.candidates]), Tail(nodes),
                         Append(copied, [candidates |-> Len(h) + 1]))
      ELSE deepCopyMap(h, Tail(nodes), Append(copied, n))

\* The nodes.map callback of deepCopy over the rest of `nodes`.
deepCopyMap(h, nodes, copied) ==
  IF nodes = <<>>
    THEN [heap |-> h, result |-> copied]
    ELSE LET n == Head(nodes) IN
      IF isGroup(n)
        THEN LET r == deepCopy(h, n.children)
             IN deepCopyMap(r.heap, Tail(nodes),
                            Append(copied, [n EXCEPT !.children = r.addr]))
      ELSE IF isOneOf(n)
        THEN deepCopyMap(Append(h, h[n.candidates]), Tail(nodes),
                         Append(copied, [candidates |-> Len(h) + 1]))
      ELSE deepCopyMap(h, Tail(nodes), Append(copied, n))

deepCopy(h, a) ==
  LET r == deepCopyMap(h, h[a], <<>>)
  IN [heap |-> Append(r.heap, r.result), addr |-> Len(r.heap) + 1]

\* `typeof ref === 'string' ? ref : ref.id`; a string ref is [str |-> id].
refId(ref) == IF "str" \in DOMAIN ref THEN ref.str ELSE ref.id

-----------------------------------------------------------------------------
(* Queries                                                                  *)

RECURSIVE collectIds(_, _), collectLoop(_, _)

\* collectLoop as it would be if a group pushed its id after its children.
collectLoopChildrenFirst(h, nodes) ==
  IF nodes = <<>>
    THEN <<>>
    ELSE LET node == Head(nodes)
             own == IF isSection(node) THEN <<node.id>>
                    ELSE IF isGroup(node)
                      THEN collectIds(h, node.children) \o <<node.id>>
                    ELSE [i \in 1..Len(h[node.candidates]) |->
                            h[node.candidates][i].id]
         IN own \o collectLoop(h, Tail(nodes))

collectLoop(h, nodes) ==
  IF nodes = <<>>
    THEN <<>>
    ELSE LET node == Head(nodes)
             own == IF isSection(node) THEN <<node.id>>
                    ELSE IF isGroup(node)
                      THEN <<node.id>> \o collectIds(h, node.children)
                    ELSE [i \in 1..Len(h[node.candidates]) |->
                            h[node.candidates][i].id]
         IN own \o collectLoop(h, Tail(nodes))

collectIds(h, a) == collectLoop(h, h[a])

RECURSIVE hasNode(_, _, _), hasLoop(_, _, _)

\* hasLoop as it would be without the search through candidates.
hasLoopSkippingCandidates(h, nodes, id) ==
  IF nodes = <<>>
    THEN FALSE
    ELSE LET node == Head(nodes) IN
      IF isSection(node)
        THEN IF node.id = id THEN TRUE ELSE hasLoop(h, Tail(nodes), id)
      ELSE IF isGroup(node)
        THEN IF node.id = id THEN TRUE
             ELSE IF hasNode(h, node.children, id) THEN TRUE
             ELSE hasLoop(h, Tail(nodes), id)
      ELSE hasLoop(h, Tail(nodes), id)

hasLoop(h, nodes, id) ==
  IF nodes = <<>>
    THEN FALSE
    ELSE LET node == Head(nodes) IN
      IF isSection(node)
        THEN IF node.id = id THEN TRUE ELSE hasLoop(h, Tail(nodes), id)
      ELSE IF isGroup(node)
        THEN IF node.id = id THEN TRUE
             ELSE IF hasNode(h, node.children, id) THEN TRUE
             ELSE hasLoop(h, Tail(nodes), id)
      ELSE IF \E i \in 1..Len(h[node.candidates]) :
                h[node.candidates][i].id = id
             THEN TRUE
             ELSE hasLoop(h, Tail(nodes), id)

hasNode(h, a, id) == hasLoop(h, h[a], id)

-----------------------------------------------------------------------------
(* Rendering                                                                *)

\* String.prototype.join over an array of strings.
RECURSIVE join(_, _)
join(parts, sep) ==
  IF parts = <<>> THEN <<>>
  ELSE IF Len(parts) = 1 THEN parts[1]
  ELSE parts[1] \o sep \o join(Tail(parts), sep)

WhiteSpace == {" ", "\n"}

\* String.prototype.trim
trim(s) ==
  LET solid == {i \in 1..Len(s) : s[i] \notin WhiteSpace}
  IN IF solid = {} THEN <<>>
     ELSE SubSeq(s, CHOOSE i \in solid : \A j \in solid : i <= j,
                    CHOOSE i \in solid : \A j \in solid : i >= j)

\* assertNever: throws new Error(`Unexpected format: ${value}`).
assertNever(value) ==
  [thrown |-> TRUE, value |-> <<>>, error |-> <<"Unexpected format", value>>]

\* formatSection; assertNever throws for any other format.
formatSection(id, content, format) ==
  CASE format = "text" -> [thrown |-> FALSE, value |-> content]
    [] format = "xml" ->
         [thrown |-> FALSE,
          value |-> <<"<", id, ">", "\n">> \o content \o <<"\n", "<", "/", id, ">">>]
    [] OTHER -> assertNever(format)

\* formatGroup as it would be if xml joined the child parts with one newline.
formatGroupSingleNewline(id, childParts, format) ==
  CASE format = "text" -> [thrown |-> FALSE, value |-> childParts]
    [] format = "xml" ->
         [thrown |-> FALSE,
          value |-> << <<"<", id, ">", "\n">> \o join(childParts, <<"\n">>)
                       \o <<"\n", "<", "/", id, ">">> >>]
    [] OTHER -> assertNever(format)

\* formatGroup as it would be if text wrapped the child parts as xml does.
formatGroupAlwaysTagged(id, childParts, format) ==
  CASE format \in {"text", "xml"} ->
         [thrown |-> FALSE,
          value |-> << <<"<", id, ">", "\n">> \o join(childParts, <<"\n", "\n">>)
                       \o <<"\n", "<", "/", id, ">">> >>]
    [] OTHER -> assertNever(format)

\* formatGroup; the value is an array of strings.
formatGroup(id, childParts, format) ==
  CASE format = "text" -> [thrown |-> FALSE, value |-> childParts]
    [] format = "xml" ->
         [thrown |-> FALSE,
          value |-> << <<"<", id, ">", "\n">> \o join(childParts, <<"\n", "\n">>)
                       \o <<"\n", "<", "/", id, ">">> >>]
    [] OTHER -> assertNever(format)

\* The state of a render pass: `parts` of the running renderNodes call, the
\* shared `included` and `excluded` arrays, the guard and render invocations
\* made so far, whether an exception is propagating and which, and the value returned
\* by the last renderSection.
NewPass ==
  [parts |-> <<>>, included |-> <<>>, excluded |-> <<>>, calls |-> <<>>,
   thrown |-> FALSE, error |-> <<>>, ret |-> FALSE]

\* A throw statement reached during the pass: the error propagates.
raise(st, error) == [st EXCEPT !.thrown = TRUE, !.error = error]

\* renderSection as it would be without the guard test.
renderSectionIgnoringWhen(section, ctx, format, st) ==
  LET output == callRender(section, ctx)
      st2 == [st EXCEPT !.calls = Append(@, <<"render", section>>)]
  IN IF renderThrows(section, ctx)
       THEN raise(st2, sectionError(section))
     ELSE IF output # <<>>
       THEN LET f == formatSection(section.id, output, format)
                st3 == [st2 EXCEPT !.included = Append(@, section.id)]
            IN IF f.thrown
                 THEN raise(st3, f.error)
                 ELSE [st3 EXCEPT !.parts = Append(@, f.value), !.ret = TRUE]
       ELSE [st2 EXCEPT !.excluded = Append(@, section.id), !.ret = FALSE]

\* renderSection as it would be if a failed guard recorded nothing.
renderSectionSilentGuard(section, ctx, format, st) ==
  LET guarded == section.when # "absent"
      st1 == IF guarded
               THEN [st EXCEPT !.calls = Append(@, <<"when", section>>)]
               ELSE st
  IN IF guarded /\ whenThrows(section, ctx)
       THEN raise(st1, sectionError(section))
     ELSE IF guarded /\ ~callWhen(section, ctx)
       THEN [st1 EXCEPT !.ret = FALSE]
       ELSE LET output == callRender(section, ctx)
                st2 == [st1 EXCEPT !.calls = Append(@, <<"render", section>>)]
            IN IF renderThrows(section, ctx)
                 THEN raise(st2, sectionError(section))
               ELSE IF output # <<>>
                 THEN LET f == formatSection(section.id, output, format)
                          st3 == [st2 EXCEPT !.included = Append(@, section.id)]
                      IN IF f.thrown
                           THEN raise(st3, f.error)
                           ELSE [st3 EXCEPT !.parts = Append(@, f.value),
                                            !.ret = TRUE]
                 ELSE [st2 EXCEPT !.excluded = Append(@, section.id),
                                  !.ret = FALSE]

\* renderSection as it would be with unshift in place of push on included.
renderSectionUnshift(section, ctx, format, st) ==
  LET guarded == section.when # "absent"
      st1 == IF guarded
               THEN [st EXCEPT !.calls = Append(@, <<"when", section>>)]
               ELSE st
  IN IF guarded /\ whenThrows(section, ctx)
       THEN raise(st1, sectionError(section))
     ELSE IF guarded /\ ~callWhen(section, ctx)
       THEN [st1 EXCEPT !.excluded = Append(@, section.id), !.ret = FALSE]
       ELSE LET output == callRender(section, ctx)
                st2 == [st1 EXCEPT !.calls = Append(@, <<"render", section>>)]
            IN IF renderThrows(section, ctx)
                 THEN raise(st2, sectionError(section))
               ELSE IF output # <<>>
                 THEN LET f == formatSection(section.id, output, format)
                          st3 == [st2 EXCEPT !.included = <<section.id>> \o @]
                      IN IF f.thrown
                           THEN raise(st3, f.error)
                           ELSE [st3 EXCEPT !.parts = Append(@, f.value),
                                            !.ret = TRUE]
                 ELSE [st2 EXCEPT !.excluded = Append(@, section.id),
                                  !.ret = FALSE]

\* renderSection as it would be if it caught what guard and render throw
\* and recorded the section as excluded.
renderSectionCatching(section, ctx, format, st) ==
  LET guarded == section.when # "absent"
      st1 == IF guarded
               THEN [st EXCEPT !.calls = Append(@, <<"when", section>>)]
               ELSE st
  IN IF guarded /\ whenThrows(section, ctx)
       THEN [st1 EXCEPT !.excluded = Append(@, section.id), !.ret = FALSE]
     ELSE IF guarded /\ ~callWhen(section, ctx)
       THEN [st1 EXCEPT !.excluded = Append(@, section.id), !.ret = FALSE]
       ELSE LET output == callRender(section, ctx)
                st2 == [st1 EXCEPT !.calls = Append(@, <<"render", section>>)]
            IN IF renderThrows(section, ctx)
                 THEN [st2 EXCEPT !.excluded = Append(@, section.id),
                                  !.ret = FALSE]
               ELSE IF output # <<>>
                 THEN LET f == formatSection(section.id, output, format)
                          st3 == [st2 EXCEPT !.included = Append(@, section.id)]
                      IN IF f.thrown
                           THEN raise(st3, f.error)
                           ELSE [st3 EXCEPT !.parts = Append(@, f.value),
                                            !.ret = TRUE]
                 ELSE [st2 EXCEPT !.excluded = Append(@, section.id),
                                  !.ret = FALSE]

\* renderSection as it would be if render were called before the guard.
renderSectionRenderFirst(section, ctx, format, st) ==
  LET guarded == section.when # "absent"
      st0 == [st EXCEPT !.calls = Append(@, <<"render", section>>)]
      st1 == IF guarded
               THEN [st0 EXCEPT !.calls = Append(@, <<"when", section>>)]
               ELSE st0
  IN IF renderThrows(section, ctx)
       THEN raise(st0, sectionError(section))
     ELSE IF guarded /\ whenThrows(section, ctx)
       THEN raise(st1, sectionError(section))
     ELSE IF guarded /\ ~callWhen(section, ctx)
       THEN [st1 EXCEPT !.excluded = Append(@, section.id), !.ret = FALSE]
       ELSE LET output == callRender(section, ctx)
            IN IF output # <<>>
                 THEN LET f == formatSection(section.id, output, format)
                          st3 == [st1 EXCEPT !.included = Append(@, section.id)]
                      IN IF f.thrown
                           THEN raise(st3, f.error)
                           ELSE [st3 EXCEPT !.parts = Append(@, f.value),
                                            !.ret = TRUE]
                 ELSE [st1 EXCEPT !.excluded = Append(@, section.id),
                                  !.ret = FALSE]

\* renderSection as it would be if xml kept a section that renders nothing.
renderSectionXmlKeepsEmpty(section, ctx, format, st) ==
  LET guarded == section.when # "absent"
      st1 == IF guarded
               THEN [st EXCEPT !.calls = Append(@, <<"when", section>>)]
               ELSE st
  IN IF guarded /\ whenThrows(section, ctx)
       THEN raise(st1, sectionError(section))
     ELSE IF guarded /\ ~callWhen(section, ctx)
       THEN [st1 EXCEPT !.excluded = Append(@, section.id), !.ret = FALSE]
       ELSE LET output == callRender(section, ctx)
                st2 == [st1 EXCEPT !.calls = Append(@, <<"render", section>>)]
            IN IF renderThrows(section, ctx)
                 THEN raise(st2, sectionError(section))
               ELSE IF output # <<>> \/ format = "xml"
                 THEN LET f == formatSection(section.id, output, format)
                          st3 == [st2 EXCEPT !.included = Append(@, section.id)]
                      IN IF f.thrown
                           THEN raise(st3, f.error)
                           ELSE [st3 EXCEPT !.parts = Append(@, f.value),
                                            !.ret = TRUE]
                 ELSE [st2 EXCEPT !.excluded = Append(@, section.id),
                                  !.ret = FALSE]

\* renderSection as it would be if the guard were asked a second time
\* before render.
renderSectionDoubleGuard(section, ctx, format, st) ==
  LET guarded == section.when # "absent"
      st1 == IF guarded
               THEN [st EXCEPT !.calls = Append(@, <<"when", section>>)]
               ELSE st
  IN IF guarded /\ whenThrows(section, ctx)
       THEN raise(st1, sectionError(section))
     ELSE IF guarded /\ ~callWhen(section, ctx)
       THEN [st1 EXCEPT !.excluded = Append(@, section.id), !.ret = FALSE]
       ELSE LET output == callRender(section, ctx)
                st2 == [st1 EXCEPT !.calls =
                                     IF guarded
                                       THEN @ \o << <<"when", section>>,
                                                    <<"render", section>> >>
                                       ELSE Append(@, <<"render", section>>)]
            IN IF renderThrows(section, ctx)
                 THEN raise(st2, sectionError(section))
               ELSE IF output # <<>>
                 THEN LET f == formatSection(section.id, output, format)
                          st3 == [st2 EXCEPT !.included = Append(@, section.id)]
                      IN IF f.thrown
                           THEN raise(st3, f.error)
                           ELSE [st3 EXCEPT !.parts = Append(@, f.value),
                                            !.ret = TRUE]
                 ELSE [st2 EXCEPT !.excluded = Append(@, section.id),
                                  !.ret = FALSE]

renderSection(section, ctx, format, st) ==
  LET guarded == section.when # "absent"
      st1 == IF guarded
               THEN [st EXCEPT !.calls = Append(@, <<"when", section>>)]
               ELSE st
  IN IF guarded /\ whenThrows(section, ctx)
       THEN raise(st1, sectionError(section))
     ELSE IF guarded /\ ~callWhen(section, ctx)
       THEN [st1 EXCEPT !.excluded = Append(@, section.id), !.ret = FALSE]
       ELSE LET output == callRender(section, ctx)
                st2 == [st1 EXCEPT !.calls = Append(@, <<"render", section>>)]
            IN IF renderThrows(section, ctx)
                 THEN raise(st2, sectionError(section))
               ELSE IF output # <<>>
                 THEN LET f == formatSection(section.id, output, format)
                          st3 == [st2 EXCEPT !.included = Append(@, section.id)]
                      IN IF f.thrown
                           THEN raise(st3, f.error)
                           ELSE [st3 EXCEPT !.parts = Append(@, f.value),
                                            !.ret = TRUE]
                 ELSE [st2 EXCEPT !.excluded = Append(@, section.id),
                                  !.ret = FALSE]

\* The for loop of renderOneOf over the rest of the candidates.
RECURSIVE renderOneOfLoop(_, _, _, _, _)

\* renderOneOfLoop as it would be if `found` were never set.
renderOneOfLoopAll(candidates, ctx, format, found, st) ==
  IF candidates = <<>> \/ st.thrown
    THEN st
    ELSE renderOneOfLoop(Tail(candidates), ctx, format, FALSE,
                         renderSection(Head(candidates), ctx, format, st))

\* renderOneOfLoop as it would be if the candidates after the winner were
\* still evaluated and only their result dropped.
renderOneOfLoopEager(candidates, ctx, format, found, st) ==
  IF candidates = <<>> \/ st.thrown
    THEN st
    ELSE LET candidate == Head(candidates)
             r == renderSection(candidate, ctx, format, st)
         IN IF found
              THEN renderOneOfLoop(Tail(candidates), ctx, format, found,
                                   [st EXCEPT !.excluded = Append(@, candidate.id),
                                              !.calls = r.calls])
              ELSE renderOneOfLoop(Tail(candidates), ctx, format,
                                   ~r.thrown /\ r.ret, r)

renderOneOfLoop(candidates, ctx, format, found, st) ==
  IF candidates = <<>> \/ st.thrown
    THEN st
    ELSE LET candidate == Head(candidates) IN
      IF found
        THEN renderOneOfLoop(Tail(candidates), ctx, format, found,
                             [st EXCEPT !.excluded = Append(@, candidate.id)])
        ELSE LET r == renderSection(candidate, ctx, format, st)
             IN renderOneOfLoop(Tail(candidates), ctx, format,
                                ~r.thrown /\ r.ret, r)

renderOneOf(h, node, ctx, format, st) ==
  renderOneOfLoop(h[node.candidates], ctx, format, FALSE, st)

RECURSIVE renderNodes(_, _, _, _, _), renderLoop(_, _, _, _, _)

\* renderLoop as it would be without the test `childParts.length > 0`.
renderLoopAlwaysFormats(h, nodes, ctx, format, st) ==
  IF nodes = <<>> \/ st.thrown
    THEN st
    ELSE LET node == Head(nodes)
             st1 ==
               IF isSection(node)
                 THEN renderSection(node, ctx, format, st)
               ELSE IF isGroup(node)
                 THEN LET r == renderNodes(h, node.children, ctx, format, st)
                          g == formatGroup(node.id, r.parts, format)
                      IN IF r.thrown THEN r
                         ELSE IF g.thrown
                           THEN raise(r, g.error)
                           ELSE [r EXCEPT !.parts = st.parts \o g.value]
               ELSE renderOneOf(h, node, ctx, format, st)
         IN renderLoop(h, Tail(nodes), ctx, format, st1)

\* renderLoop as it would be if a group that contributes pushed its id
\* onto included.
renderLoopRecordingGroups(h, nodes, ctx, format, st) ==
  IF nodes = <<>> \/ st.thrown
    THEN st
    ELSE LET node == Head(nodes)
             st1 ==
               IF isSection(node)
                 THEN renderSection(node, ctx, format, st)
               ELSE IF isGroup(node)
                 THEN LET r == renderNodes(h, node.children, ctx, format,
                                           [st EXCEPT !.included =
                                                        Append(@, node.id)])
                          g == formatGroup(node.id, r.parts, format)
                      IN IF r.thrown THEN r
                         ELSE IF Len(r.parts) > 0
                           THEN IF g.thrown
                                  THEN raise(r, g.error)
                                  ELSE [r EXCEPT !.parts = st.parts \o g.value]
                         ELSE [r EXCEPT !.parts = st.parts]
               ELSE renderOneOf(h, node, ctx, format, st)
         IN renderLoop(h, Tail(nodes), ctx, format, st1)

\* The for loop of renderNodes over the rest of `nodes`.
renderLoop(h, nodes, ctx, format, st) ==
  IF nodes = <<>> \/ st.thrown
    THEN st
    ELSE LET node == Head(nodes)
             st1 ==
               IF isSection(node)
                 THEN renderSection(node, ctx, format, st)
               ELSE IF isGroup(node)
                 THEN LET r == renderNodes(h, node.children, ctx, format, st)
                          g == formatGroup(node.id, r.parts, format)
                      IN IF r.thrown THEN r
                         ELSE IF Len(r.parts) > 0
                           THEN IF g.thrown
                                  THEN raise(r, g.error)
                                  ELSE [r EXCEPT !.parts = st.parts \o g.value]
                         ELSE [r EXCEPT !.parts = st.parts]
               ELSE renderOneOf(h, node, ctx, format, st)
         IN renderLoop(h, Tail(nodes), ctx, format, st1)

\* renderNodes starts its own `parts` and shares included and excluded.
renderNodes(h, a, ctx, format, st) ==
  renderLoop(h, h[a], ctx, format, [st EXCEPT !.parts = <<>>])

\* BuildOptions: undefined is [absent |-> TRUE]; `options?.format ?? 'text'`.
optionsFormat(options) ==
  IF "format" \in DOMAIN options THEN options.format ELSE "text"

\* The render pass of buildWithMeta (line 172).
renderPass(h, a, ctx, options) ==
  renderNodes(h, a, ctx, optionsFormat(options), NewPass)

\* buildWithMeta as it would be without the trim.
buildWithMetaUntrimmed(h, a, ctx, options) ==
  LET r == renderPass(h, a, ctx, options)
  IN IF r.thrown
       THEN [error |-> r.error]
       ELSE [prompt |-> join(r.parts, <<"\n", "\n">>),
             included |-> r.included, excluded |-> r.excluded]

\* PromptBuilder.buildWithMeta: the returned object, or the thrown error.
buildWithMeta(h, a, ctx, options) ==
  LET r == renderPass(h, a, ctx, options)
  IN IF r.thrown
       THEN [error |-> r.error]
       ELSE [prompt |-> trim(join(r.parts, <<"\n", "\n">>)),
             included |-> r.included, excluded |-> r.excluded]

\* PromptBuilder.build
build(h, a, ctx, options) ==
  LET m == buildWithMeta(h, a, ctx, options)
  IN IF "error" \in DOMAIN m THEN m ELSE [prompt |-> m.prompt]

-----------------------------------------------------------------------------
(* Builders and the heap                                                    *)

\* B is the builder under study, F the result of B.fork(), K the child
\* builder a configure callback was handed, when its caller kept it.
Builders == {"B", "F", "K"}

\* The builders the calls of a run are made on.
Callers == {"B", "F"}

\* Addresses a node array refers to, in order.
RECURSIVE refsOf(_)
refsOf(nodes) ==
  IF nodes = <<>> THEN <<>>
  ELSE LET n == Head(nodes)
       IN (IF isGroup(n) THEN <<n.children>>
           ELSE IF isOneOf(n) THEN <<n.candidates>> ELSE <<>>)
          \o refsOf(Tail(nodes))

\* Arrays reachable from the builders, in first-visit order.
RECURSIVE reach(_, _, _)
reach(h, todo, seen) ==
  IF todo = <<>> THEN seen
  ELSE LET a == Head(todo)
       IN IF a = 0 \/ \E i \in 1..Len(seen) : seen[i] = a
            THEN reach(h, Tail(todo), seen)
            ELSE reach(h, refsOf(h[a]) \o Tail(todo), Append(seen, a))

\* Garbage collection: unreachable arrays are dropped and the live ones
\* renumbered in visit order, which no program can observe.
collect(h, r) ==
  LET order == reach(h, <<r["B"], r["F"], r["K"]>>, <<>>)
      new(a) == IF a = 0 THEN 0 ELSE CHOOSE i \in 1..Len(order) : order[i] = a
      move(n) == IF isGroup(n) THEN [n EXCEPT !.children = new(@)]
                 ELSE IF isOneOf(n) THEN [candidates |-> new(n.candidates)]
                 ELSE n
  IN [heap |-> [i \in 1..Len(order) |->
                  [j \in 1..Len(h[order[i]]) |-> move(h[order[i]][j])]],
      root |-> [b \in Builders |-> new(r[b])]]

Commit(h, r) ==
  LET c == collect(h, r)
  IN heap' = c.heap /\ root' = c.root

\* PromptBuilder.ids
ids(h, a) == collectIds(h, a)

\* PromptBuilder.has
has(h, a, ref) == hasNode(h, a, refId(ref))

\* The composition tree below an array, as a value without addresses.
RECURSIVE treeOf(_, _)
treeOf(h, a) ==
  [i \in 1..Len(h[a]) |->
     LET n == h[a][i]
     IN IF isGroup(n) THEN [id |-> n.id, children |-> treeOf(h, n.children)]
        ELSE IF isOneOf(n) THEN [candidates |-> h[n.candidates]]
        ELSE n]

-----------------------------------------------------------------------------
(* Inputs                                                                   *)

CandidateLists == {<<secA2, secA, secC>>, <<secB, secT>>}

Configures ==
  {<<>>,
   <<[op |-> "use", section |-> secA2],
     [op |-> "useOneOf", candidates |-> <<secB, secC>>],
     [op |-> "group", id |-> "h",
      configure |-> <<[op |-> "use", section |-> secB]>>]>>,
   <<[op |-> "useOneOf", candidates |-> <<secB, secA>>]>>}

GroupIds == {"g", "c"}

\* without and has accept an id string or an object with an id.
Refs == {[str |-> "a"], [str |-> "g"], [str |-> "h"], secB}

\* "md" is a format outside PromptFormat, as an untyped caller can pass.
Options ==
  {[absent |-> TRUE], [format |-> "text"], [format |-> "xml"], [format |-> "md"]}

NoOut == [none |-> TRUE]

-----------------------------------------------------------------------------
(* Operations                                                               *)

Init ==
  /\ heap = << <<>> >>
  /\ root = [b \in Builders |-> IF b = "B" THEN 1 ELSE 0]
  /\ steps = 0
  /\ last = [op |-> "new", b |-> "B"]
  /\ out = NoOut
  /\ calls = <<>>

Use(b, section) ==
  /\ steps < MaxSteps
  /\ root[b] # 0
  /\ Commit(use(heap, root[b], section), root)
  /\ steps' = steps + 1
  /\ last' = [op |-> "use", b |-> b, section |-> section]
  /\ out' = NoOut
  /\ calls' = <<>>

UseOneOf(b, candidates) ==
  /\ steps < MaxSteps
  /\ root[b] # 0
  /\ Commit(useOneOf(heap, root[b], candidates), root)
  /\ steps' = steps + 1
  /\ last' = [op |-> "useOneOf", b |-> b, candidates |-> candidates]
  /\ out' = NoOut
  /\ calls' = <<>>

\* group; when `keep`, the caller of group holds on to the child builder.
Group(b, id, configure, keep) ==
  /\ steps < MaxSteps
  /\ root[b] # 0
  /\ Commit(group(heap, root[b], id, configure),
            IF keep THEN [root EXCEPT !["K"] = Len(heap) + 1] ELSE root)
  /\ steps' = steps + 1
  /\ last' = [op |-> "group", b |-> b, id |-> id, configure |-> configure,
              keep |-> keep]
  /\ out' = NoOut
  /\ calls' = <<>>

Without(b, ref) ==
  /\ steps < MaxSteps
  /\ root[b] # 0
  /\ LET r == removeNode(heap, root[b], refId(ref))
     IN Commit(r.heap, [root EXCEPT ![b] = r.addr])
  /\ steps' = steps + 1
  /\ last' = [op |-> "without", b |-> b, ref |-> ref]
  /\ out' = NoOut
  /\ calls' = <<>>

\* F = B.fork()
Fork ==
  /\ steps < MaxSteps
  /\ LET r == deepCopy(heap, root["B"])
     IN Commit(r.heap, [root EXCEPT !["F"] = r.addr])
  /\ last' = [op |-> "fork", b |-> "B"]
  /\ out' = NoOut
  /\ calls' = <<>>
  /\ steps' = steps + 1

\* buildWithMeta as it would be if the pass took the first excluded id out
\* of the tree it has rendered.
BuildWithMetaPruning(b, ctx, options) ==
  /\ steps < MaxSteps
  /\ root[b] # 0
  /\ out' = buildWithMeta(heap, root[b], ctx, options)
  /\ calls' = renderPass(heap, root[b], ctx, options).calls
  /\ last' = [op |-> "buildWithMeta", b |-> b, ctx |-> ctx, options |-> options]
  /\ steps' = steps + 1
  /\ LET pass == renderPass(heap, root[b], ctx, options)
         r == IF pass.excluded # <<>>
                THEN removeNode(heap, root[b], pass.excluded[1])
                ELSE [heap |-> heap, addr |-> root[b]]
     IN Commit(r.heap, [root EXCEPT ![b] = r.addr])

BuildWithMeta(b, ctx, options) ==
  /\ steps < MaxSteps
  /\ root[b] # 0
  /\ out' = buildWithMeta(heap, root[b], ctx, options)
  /\ calls' = renderPass(heap, root[b], ctx, options).calls
  /\ last' = [op |-> "buildWithMeta", b |-> b, ctx |-> ctx, options |-> options]
  /\ steps' = steps + 1
  /\ UNCHANGED <<heap, root>>

\* PromptBuilder.ids: a read of the tree.
IdsCall(b) ==
  /\ steps < MaxSteps
  /\ root[b] # 0
  /\ out' = [value |-> ids(heap, root[b])]
  /\ calls' = <<>>
  /\ last' = [op |-> "ids", b |-> b]
  /\ steps' = steps + 1
  /\ UNCHANGED <<heap, root>>

\* PromptBuilder.has: a read of the tree.
HasCall(b, ref) ==
  /\ steps < MaxSteps
  /\ root[b] # 0
  /\ out' = [value |-> has(heap, root[b], ref)]
  /\ calls' = <<>>
  /\ last' = [op |-> "has", b |-> b, ref |-> ref]
  /\ steps' = steps + 1
  /\ UNCHANGED <<heap, root>>

Next ==
  \/ \E b \in Callers, section \in Sections : Use(b, section)
  \/ \E b \in Callers, candidates \in CandidateLists : UseOneOf(b, candidates)
  \/ \E b \in Callers, id \in GroupIds, configure \in Configures :
        Group(b, id, configure, FALSE)
  \/ \E b \in Callers, ref \in Refs : Without(b, ref)
  \/ Fork
  \/ \E b \in Callers, ctx \in Contexts, options \in Options :
        BuildWithMeta(b, ctx, options)
  \/ \E b \in Callers : IdsCall(b)
  \/ \E b \in Callers, ref \in Refs : HasCall(b, ref)

Spec == Init /\ [][Next]_vars

-----------------------------------------------------------------------------
(* Vocabulary of the properties                                             *)

Count(s, x) == Cardinality({i \in 1..Len(s) : s[i] = x})

Mutators == {"use", "useOneOf", "group", "without"}

Exists(b) == root[b] # 0

\* Ids of the Sections and Groups of a tree, depth first, candidates left out.
RECURSIVE addressableIds(_)
addressableIds(t) ==
  IF t = <<>> THEN <<>>
  ELSE LET n == Head(t)
       IN (IF isSection(n) THEN <<n.id>>
           ELSE IF isGroup(n) THEN <<n.id>> \o addressableIds(n.children)
           ELSE <<>>)
          \o addressableIds(Tail(t))

FirstIndex(s, x) ==
  IF Count(s, x) = 0 THEN 0
  ELSE CHOOSE i \in 1..Len(s) : s[i] = x /\ \A j \in 1..(i - 1) : s[j] # x

\* Everything a caller can observe of the builder whose nodes are at a.
View(h, a) ==
  [ids |-> ids(h, a),
   has |-> [i \in Ids |-> has(h, a, [str |-> i])],
   meta |-> [ctx \in Contexts, options \in Options |->
               buildWithMeta(h, a, ctx, options)]]

\* The ids a tree lists once every node with the id, and the subtree of
\* every group with the id, is taken away.
RECURSIVE survivingIds(_, _)
survivingIds(t, id) ==
  IF t = <<>> THEN <<>>
  ELSE LET n == Head(t)
       IN (IF isSection(n) THEN (IF n.id = id THEN <<>> ELSE <<n.id>>)
           ELSE IF isGroup(n)
             THEN (IF n.id = id THEN <<>>
                   ELSE <<n.id>> \o survivingIds(n.children, id))
           ELSE survivingIds(n.candidates, id))
          \o survivingIds(Tail(t), id)

-----------------------------------------------------------------------------
(* C1: use(section) replaces, at its position, the Section or Group with    *)
(* the same id wherever it is in the tree outside alternative-sets (top     *)
(* level or inside a group at any depth) and then appends nothing; only     *)
(* when there is no such node is the section appended at the end of the     *)
(* top level.                                                               *)
UseReplacesAtAnyDepth ==
  [][last'.op = "use" =>
       LET b == last'.b
           s == last'.section
           old == treeOf(heap, root[b])
           new == treeOf(heap', root'[b])
       IN IF Count(addressableIds(old), s.id) > 0
            THEN /\ Len(new) = Len(old)
                 /\ FirstIndex(addressableIds(new), s.id)
                      = FirstIndex(addressableIds(old), s.id)
            ELSE new = Append(old, s)]_vars

(* C2: in the tree of every builder no id is carried by more than one       *)
(* Section or Group node, at any depth, alternative-set candidates not      *)
(* counted.                                                                 *)
IdsUniqueInTree ==
  \A b \in Callers :
    Exists(b) =>
      \A x \in Ids : Count(addressableIds(treeOf(heap, root[b])), x) <= 1

(* C3: once F = B.fork() exists, a use, useOneOf, group or without call on  *)
(* F leaves ids(), has(x) for every x and every buildWithMeta result of B   *)
(* as they were, and such a call on B leaves those of F as they were.       *)
ForkIndependence ==
  [][(last'.op \in Mutators /\ Exists("F")) =>
       /\ last'.b = "F" =>
            View(heap', root'["B"]) = View(heap, root["B"])
       /\ last'.b = "B" =>
            View(heap', root'["F"]) = View(heap, root["F"])]_vars

\* F.without(b) took b out of a group and an alternative-set of F, and B
\* still has it.
ForkIndependenceWitness ==
  /\ last.op = "without" /\ last.b = "F" /\ last.ref = secB
  /\ treeOf(heap, root["F"])
       = << [id |-> "g",
             children |-> <<secA2, [candidates |-> <<secC>>],
                            [id |-> "h", children |-> <<>>]>>] >>
  /\ has(heap, root["B"], secB)
  /\ ids(heap, root["B"]) = <<"g", "a", "b", "c", "h", "b">>

(* C4: without(ref) removes every Section, every Group (with its subtree)   *)
(* and every alternative-set candidate with the id, at every depth, and     *)
(* nothing else: afterwards has(id) is false, ids() is the old ids() with   *)
(* exactly those entries gone (the rest in their order), and when the id    *)
(* was nowhere, ids() and every render result are unchanged.                *)
WithoutRemovesEverywhere ==
  [][last'.op = "without" =>
       LET b == last'.b
           id == refId(last'.ref)
       IN /\ ~has(heap', root'[b], last'.ref)
          /\ ids(heap', root'[b]) = survivingIds(treeOf(heap, root[b]), id)
          /\ ~has(heap, root[b], last'.ref) =>
               View(heap', root'[b]) = View(heap, root[b])]_vars

\* without(b) on [g: [a, oneOf(b, c), h: [b]]] reached into the group, the
\* nested group and the alternative-set.
WithoutWitness ==
  /\ last.op = "without" /\ last.b = "B" /\ last.ref = secB
  /\ ids(heap, root["B"]) = <<"g", "a", "c", "h">>
  /\ ~has(heap, root["B"], [str |-> "b"])

\* without of an id that is nowhere in a tree that is not empty.
WithoutAbsentWitness ==
  /\ last.op = "without" /\ last.b = "B" /\ last.ref = [str |-> "h"]
  /\ ids(heap, root["B"]) = <<"a", "a", "c">>

-----------------------------------------------------------------------------
(* Vocabulary of the render properties                                      *)

\* The last call was a buildWithMeta that returned.
Built == last.op = "buildWithMeta" /\ "prompt" \in DOMAIN out

BuiltTree == treeOf(heap, root[last.b])

BuiltFormat == optionsFormat(last.options)

\* Guard absent or true under ctx, and a render that is not empty; neither
\* throws.
Passes(s, ctx) ==
  /\ s.when = "absent" \/ (~whenThrows(s, ctx) /\ callWhen(s, ctx))
  /\ ~renderThrows(s, ctx)
  /\ callRender(s, ctx) # <<>>

\* Section occurrences outside alternative-sets, depth first.
RECURSIVE plainSections(_)
plainSections(t) ==
  IF t = <<>> THEN <<>>
  ELSE LET n == Head(t)
       IN (IF isSection(n) THEN <<n>>
           ELSE IF isGroup(n) THEN plainSections(n.children)
           ELSE <<>>)
          \o plainSections(Tail(t))

\* Candidate lists of the alternative-sets of a tree, depth first.
RECURSIVE altSets(_)
altSets(t) ==
  IF t = <<>> THEN <<>>
  ELSE LET n == Head(t)
       IN (IF isOneOf(n) THEN <<n.candidates>>
           ELSE IF isGroup(n) THEN altSets(n.children)
           ELSE <<>>)
          \o altSets(Tail(t))

\* Ids of the Group nodes of a tree, depth first.
RECURSIVE groupIds(_)
groupIds(t) ==
  IF t = <<>> THEN <<>>
  ELSE LET n == Head(t)
       IN (IF isGroup(n) THEN <<n.id>> \o groupIds(n.children) ELSE <<>>)
          \o groupIds(Tail(t))

\* Candidate occurrences of a tree, depth first.
RECURSIVE candidateSections(_)
candidateSections(t) ==
  IF t = <<>> THEN <<>>
  ELSE LET n == Head(t)
       IN (IF isOneOf(n) THEN n.candidates
           ELSE IF isGroup(n) THEN candidateSections(n.children)
           ELSE <<>>)
          \o candidateSections(Tail(t))

CandidateIds(t) ==
  {candidateSections(t)[i].id : i \in 1..Len(candidateSections(t))}

PlainIds(t) == {plainSections(t)[i].id : i \in 1..Len(plainSections(t))}

\* Index of the first candidate that passes, 0 when none does.
Winner(candidates, ctx) ==
  LET w == {i \in 1..Len(candidates) : Passes(candidates[i], ctx)}
  IN IF w = {} THEN 0 ELSE CHOOSE i \in w : \A j \in w : i <= j

\* The sections that contribute to the prompt, depth first.
RECURSIVE includedSections(_, _)
includedSections(t, ctx) ==
  IF t = <<>> THEN <<>>
  ELSE LET n == Head(t)
       IN (IF isSection(n) THEN (IF Passes(n, ctx) THEN <<n>> ELSE <<>>)
           ELSE IF isGroup(n) THEN includedSections(n.children, ctx)
           ELSE IF Winner(n.candidates, ctx) = 0 THEN <<>>
           ELSE <<n.candidates[Winner(n.candidates, ctx)]>>)
          \o includedSections(Tail(t), ctx)

\* The guard and render invocations a list of sections asks for when each
\* is evaluated once.
RECURSIVE evaluations(_, _)
evaluations(sections, ctx) ==
  IF sections = <<>> THEN <<>>
  ELSE LET s == Head(sections)
       IN (IF s.when = "absent" THEN <<>> ELSE << <<"when", s>> >>)
          \o (IF s.when = "absent" \/ callWhen(s, ctx)
                THEN << <<"render", s>> >> ELSE <<>>)
          \o evaluations(Tail(sections), ctx)

\* Number of times a section value occurs in a tree, candidates included.
Occurrences(t, s) == Count(plainSections(t) \o candidateSections(t), s)

RECURSIVE IsSubseq(_, _)
IsSubseq(s, t) ==
  IF s = <<>> THEN TRUE
  ELSE IF t = <<>> THEN FALSE
  ELSE IF Head(s) = Head(t) THEN IsSubseq(Tail(s), Tail(t))
  ELSE IsSubseq(s, Tail(t))

-----------------------------------------------------------------------------
(* C5: in buildWithMeta a Section that is no alternative-set candidate is   *)
(* recorded in included exactly when its guard is absent or true and its    *)
(* render is not empty, and then contributes one fragment; otherwise it is  *)
(* recorded in excluded and contributes no fragment.                        *)
SectionIncludedIffGuardAndContent ==
  Built =>
    LET t == BuiltTree
        ctx == last.ctx
        plain == plainSections(t)
        pass == renderPass(heap, root[last.b], ctx, last.options)
    IN /\ \A i \in 1..Len(plain) :
            LET s == plain[i]
                r == renderSection(s, ctx, BuiltFormat, NewPass)
            IN IF Passes(s, ctx)
                 THEN /\ r.included = <<s.id>> /\ r.excluded = <<>>
                      /\ Len(r.parts) = 1
                 ELSE /\ r.included = <<>> /\ r.excluded = <<s.id>>
                      /\ r.parts = <<>>
       /\ \A x \in Ids \ CandidateIds(t) :
            /\ Count(out.included, x)
                 = Cardinality({i \in 1..Len(plain) :
                                  plain[i].id = x /\ Passes(plain[i], ctx)})
            /\ Count(out.excluded, x)
                 = Cardinality({i \in 1..Len(plain) :
                                  plain[i].id = x /\ ~Passes(plain[i], ctx)})
       /\ BuiltFormat = "text" => Len(pass.parts) = Len(out.included)

\* [a2 (guard false), c (guard true, "w")] under flag = FALSE.
SectionIncludedWitness ==
  /\ Built /\ last.ctx = [flag |-> FALSE]
  /\ BuiltTree = <<secA2, secC>>
  /\ out.included = <<"c">> /\ out.excluded = <<"a">>

(* C6: of every alternative-set at most one candidate is included and       *)
(* contributes a fragment: the first in candidate order whose guard passes  *)
(* and whose render is not empty; every other candidate is excluded.        *)
FirstPassingCandidateWins ==
  Built =>
    LET t == BuiltTree
        ctx == last.ctx
        sets == altSets(t)
        won == {k \in 1..Len(sets) : Winner(sets[k], ctx) # 0}
    IN /\ \A k \in 1..Len(sets) :
            LET c == sets[k]
                w == Winner(c, ctx)
                r == renderOneOfLoop(c, ctx, BuiltFormat, FALSE, NewPass)
                others == SelectSeq([i \in 1..Len(c) |-> <<i, c[i].id>>],
                                    LAMBDA p : p[1] # w)
            IN /\ Len(r.included) <= 1
               /\ r.included = IF w = 0 THEN <<>> ELSE <<c[w].id>>
               /\ r.parts = IF w = 0 THEN <<>>
                            ELSE <<formatSection(c[w].id, callRender(c[w], ctx),
                                                 BuiltFormat).value>>
               /\ r.excluded = [i \in 1..Len(others) |-> others[i][2]]
       /\ \A x \in Ids \ PlainIds(t) :
            Count(out.included, x)
              = Cardinality({k \in won : sets[k][Winner(sets[k], ctx)].id = x})

\* oneOf(a2, a, c) under flag = FALSE: the guard of a2 fails, a wins, and c,
\* whose guard is true and whose render is "w", is excluded.
FirstPassingCandidateWitness ==
  /\ Built /\ last.ctx = [flag |-> FALSE]
  /\ BuiltTree = << [candidates |-> <<secA2, secA, secC>>] >>
  /\ Passes(secC, last.ctx)
  /\ out.included = <<"a">> /\ out.excluded = <<"a", "c">>

(* C7: once a candidate of an alternative-set is included, neither the      *)
(* guard nor the render of a later candidate of the set is invoked in that  *)
(* pass; the later candidates are only appended to excluded.                *)
NoCallAfterWinner ==
  Built =>
    LET t == BuiltTree
        ctx == last.ctx
        sets == altSets(t)
    IN \A k \in 1..Len(sets) :
         LET c == sets[k]
             w == Winner(c, ctx)
             r == renderOneOfLoop(c, ctx, BuiltFormat, FALSE, NewPass)
         IN w # 0 =>
              /\ r.calls = evaluations(SubSeq(c, 1, w), ctx)
              /\ \A j \in (w + 1)..Len(c) :
                   /\ Count(out.excluded, c[j].id) >= 1
                   /\ Occurrences(t, c[j]) = 1 =>
                        \A i \in 1..Len(calls) : calls[i][2] # c[j]

\* oneOf(a2, a, c) under flag = TRUE: a2 wins and only a2 was evaluated.
NoCallAfterWinnerWitness ==
  /\ Built /\ last.ctx = [flag |-> TRUE]
  /\ BuiltTree = << [candidates |-> <<secA2, secA, secC>>] >>
  /\ calls = << <<"when", secA2>>, <<"render", secA2>> >>
  /\ out.excluded = <<"a", "c">>

(* C8: every Section occurrence (top level, in groups, every candidate) is  *)
(* recorded once, in included or in excluded: together the two lists hold   *)
(* the ids of ids() without the Group nodes' ids, and a Group node adds     *)
(* nothing to either list.                                                  *)
MetadataPartition ==
  Built =>
    LET t == BuiltTree
        all == ids(heap, root[last.b])
    IN /\ \A x \in Ids :
            Count(out.included, x) + Count(out.excluded, x)
              = Count(all, x) - Count(groupIds(t), x)
       /\ Len(out.included) + Len(out.excluded)
            = Len(plainSections(t)) + Len(candidateSections(t))

\* [g: [a2, oneOf(b, c), h: [b]]] under flag = TRUE.
MetadataPartitionWitness ==
  /\ Built /\ last.ctx = [flag |-> TRUE]
  /\ ids(heap, root[last.b]) = <<"g", "a", "b", "c", "h", "b">>
  /\ out.included = <<"a", "b", "b">> /\ out.excluded = <<"c">>

-----------------------------------------------------------------------------
(* Vocabulary of the format properties                                      *)

BlankLine == <<"\n", "\n">>

\* The body between an opening and a closing tag, each tag on its own line.
Tagged(id, body) == <<"<", id, ">", "\n">> \o body \o <<"\n", "<", "/", id, ">">>

\* The fragments the nodes of a tree contribute in xml format.
RECURSIVE xmlFragments(_, _)
xmlFragments(t, ctx) ==
  IF t = <<>> THEN <<>>
  ELSE LET n == Head(t)
       IN (IF isSection(n)
             THEN (IF Passes(n, ctx)
                     THEN <<Tagged(n.id, callRender(n, ctx))>> ELSE <<>>)
           ELSE IF isGroup(n)
             THEN (IF xmlFragments(n.children, ctx) = <<>> THEN <<>>
                   ELSE <<Tagged(n.id, join(xmlFragments(n.children, ctx),
                                            BlankLine))>>)
           ELSE IF Winner(n.candidates, ctx) = 0 THEN <<>>
           ELSE LET w == n.candidates[Winner(n.candidates, ctx)]
                IN <<Tagged(w.id, callRender(w, ctx))>>)
          \o xmlFragments(Tail(t), ctx)

\* The positions <<p, i>> of the Group nodes in the arrays of a heap.
GroupPositions(h) ==
  UNION {{<<p, i>> : i \in {j \in 1..Len(h[p]) : isGroup(h[p][j])}} :
           p \in 1..Len(h)}

\* The heap in which array p holds, in place of the Group at index i, the
\* children of that group in order.
spliceGroup(h, p, i) ==
  [h EXCEPT ![p] = SubSeq(h[p], 1, i - 1) \o h[h[p][i].children]
                     \o SubSeq(h[p], i + 1, Len(h[p]))]

\* The heap in which array p no longer holds the node at index i.
dropNode(h, p, i) ==
  [h EXCEPT ![p] = SubSeq(h[p], 1, i - 1) \o SubSeq(h[p], i + 1, Len(h[p]))]

\* s holds sub as a run of consecutive elements.
Contains(s, sub) ==
  \E k \in 0..(Len(s) - Len(sub)) : SubSeq(s, k + 1, k + Len(sub)) = sub

(* C11: in xml format an included section contributes an opening tag with   *)
(* its id, a newline, its content as rendered, a newline and a closing tag  *)
(* with its id; a group with at least one child fragment contributes one    *)
(* fragment, its child fragments joined by a blank line between its own     *)
(* tags, at every nesting depth; the prompt is the top-level fragments      *)
(* joined by a blank line.                                                  *)
XmlPromptIsTaggedFragments ==
  (Built /\ BuiltFormat = "xml") =>
    LET expected == join(xmlFragments(BuiltTree, last.ctx), BlankLine)
    IN /\ out.prompt = expected
       /\ build(heap, root[last.b], last.ctx, last.options)
            = [prompt |-> expected]

\* [g: [a2, oneOf(b, c), h: [b]]] under flag = TRUE in xml: three fragments
\* inside <g>, the last of them the nested <h>.
XmlPromptWitness ==
  /\ Built /\ BuiltFormat = "xml" /\ last.ctx = [flag |-> TRUE]
  /\ groupIds(BuiltTree) = <<"g", "h">>
  /\ out.included = <<"a", "b", "b">>
  /\ out.prompt
       = Tagged("g", Tagged("a", <<" ", "y">>) \o BlankLine
                       \o Tagged("b", <<"z", "\n">>) \o BlankLine
                       \o Tagged("h", Tagged("b", <<"z", "\n">>)))

(* C12: in text format the prompt, included and excluded of a tree with a   *)
(* Group, at whatever depth the group is, are those of the tree that holds  *)
(* the children of the group, in order, at the position of the group.       *)
GroupTransparentInText ==
  (Built /\ BuiltFormat = "text") =>
    \A pos \in GroupPositions(heap) :
      buildWithMeta(spliceGroup(heap, pos[1], pos[2]), root[last.b],
                    last.ctx, last.options) = out

\* [a, g: [a2, oneOf(b, c), h: [b]]] under flag = FALSE in text: the nested
\* groups leave "x" and "w" two newlines apart.
GroupTransparentWitness ==
  /\ Built /\ BuiltFormat = "text" /\ last.ctx = [flag |-> FALSE]
  /\ groupIds(BuiltTree) = <<"g", "h">>
  /\ out.prompt = <<"x", "\n", "\n", "w">>
  /\ out.included = <<"a", "c">> /\ out.excluded = <<"a", "b", "b">>

(* C13: a Group none of whose descendants contributes a fragment (it has no *)
(* children, or each is excluded by its guard or an empty render, nested    *)
(* groups and alternative-sets included) adds nothing to the prompt in text *)
(* or xml format, no empty pair of tags either, and its id is in neither    *)
(* included nor excluded unless a section carries the same id.              *)
EmptyGroupOmitted ==
  Built =>
    \A pos \in GroupPositions(heap) :
      LET g == heap[pos[1]][pos[2]]
          t == BuiltTree
      IN includedSections(treeOf(heap, g.children), last.ctx) = <<>> =>
           /\ buildWithMeta(dropNode(heap, pos[1], pos[2]), root[last.b],
                            last.ctx, last.options).prompt = out.prompt
           /\ ~Contains(out.prompt, Tagged(g.id, <<>>))
           /\ g.id \notin PlainIds(t) \cup CandidateIds(t) =>
                Count(out.included \o out.excluded, g.id) = 0

\* [g: [a2, oneOf(b, c), h: [b]]] under flag = FALSE in xml: the nested
\* group h has no fragment and leaves no tags inside <g>.
EmptyGroupWitness ==
  /\ Built /\ BuiltFormat = "xml" /\ last.ctx = [flag |-> FALSE]
  /\ groupIds(BuiltTree) = <<"g", "h">>
  /\ out.prompt = Tagged("g", Tagged("c", <<"w">>))
  /\ out.excluded = <<"a", "b", "b">>

\* [g: [oneOf(b)]] under flag = FALSE: the only candidate renders nothing,
\* the group has no fragment and the prompt is empty.
EmptyGroupAltSetWitness ==
  /\ Built /\ BuiltFormat = "xml" /\ last.ctx = [flag |-> FALSE]
  /\ BuiltTree = << [id |-> "g", children |-> << [candidates |-> <<secB>>] >>] >>
  /\ out = [prompt |-> <<>>, included |-> <<>>, excluded |-> <<"b">>]

-----------------------------------------------------------------------------
(* Vocabulary of the error properties                                       *)

\* The caller got an error and nothing else.
Raised(result) == DOMAIN result = {"error"}

\* The recorded invocation is one that throws under ctx.
Throws(call, ctx) ==
  \/ call[1] = "when" /\ whenThrows(call[2], ctx)
  \/ call[1] = "render" /\ renderThrows(call[2], ctx)

(* C14: build and buildWithMeta called with a format other than text and    *)
(* xml raise an error and return no prompt, whatever the tree and the       *)
(* context, an empty tree and a tree whose sections are all excluded        *)
(* included.                                                                *)
UnknownFormatRaises ==
  (last.op = "buildWithMeta" /\ BuiltFormat \notin Formats) =>
    /\ Raised(out)
    /\ Raised(build(heap, root[last.b], last.ctx, last.options))

(* C15: when a guard or a render invoked during buildWithMeta throws, the   *)
(* caller gets that very error and neither a prompt nor the lists, the      *)
(* throwing invocation is the last one of the pass, build behaves alike,    *)
(* and ids() of every builder is what it was before the call.               *)
ThrowAbortsRender ==
  [][last'.op = "buildWithMeta" =>
       \A i \in 1..Len(calls') :
         Throws(calls'[i], last'.ctx) =>
           /\ i = Len(calls')
           /\ out' = [error |-> sectionError(calls'[i][2])]
           /\ build(heap', root'[last'.b], last'.ctx, last'.options) = out'
           /\ \A b \in Builders :
                Exists(b) =>
                  /\ root'[b] # 0
                  /\ ids(heap', root'[b]) = ids(heap, root[b])]_vars

\* [t, a2] under flag = TRUE: the guard of t throws and the guard of a2 is
\* never asked.
ThrowAbortsRenderWitness ==
  /\ last.op = "buildWithMeta" /\ last.ctx = [flag |-> TRUE]
  /\ BuiltTree = <<secT, secA2>>
  /\ calls = << <<"when", secT>> >>
  /\ out = [error |-> <<"boom", "t">>]

\* [oneOf(b, t), a] under flag = FALSE: b renders nothing, the guard of
\* candidate t passes, its render throws and the render of a is never asked.
RenderThrowsWitness ==
  /\ last.op = "buildWithMeta" /\ last.ctx = [flag |-> FALSE]
  /\ BuiltTree = << [candidates |-> <<secB, secT>>], secA >>
  /\ calls = << <<"render", secB>>, <<"when", secT>>, <<"render", secT>> >>
  /\ out = [error |-> <<"boom", "t">>]

-----------------------------------------------------------------------------
(* Vocabulary of the tree properties                                        *)

\* Every builder that exists keeps existing with the tree it has.
TreesUnchanged ==
  \A b \in Builders :
    Exists(b) => /\ root'[b] # 0
                 /\ treeOf(heap', root'[b]) = treeOf(heap, root[b])

\* Top-level indices of the Sections and Groups of a tree that carry the id.
topLevelHits(t, id) == {i \in 1..Len(t) : ~isOneOf(t[i]) /\ t[i].id = id}

\* The ids met walking a tree depth first, left to right.
RECURSIVE depthFirstIds(_)
depthFirstIds(t) ==
  IF t = <<>> THEN <<>>
  ELSE LET n == Head(t)
       IN (IF isSection(n) THEN <<n.id>>
           ELSE IF isGroup(n) THEN <<n.id>> \o depthFirstIds(n.children)
           ELSE [i \in 1..Len(n.candidates) |-> n.candidates[i].id])
          \o depthFirstIds(Tail(t))

(* C16: after use(s), a second use(s) with the same section leaves the tree *)
(* (so ids() and its length) and every render result as they are; and when *)
(* the id of s was carried by a top-level Section or Group, use(s) puts s   *)
(* at that index and every other node keeps its position.                   *)
UseIsIdempotent ==
  [][last'.op = "use" =>
       LET b == last'.b
           s == last'.section
           old == treeOf(heap, root[b])
           new == treeOf(heap', root'[b])
           again == use(heap', root'[b], s)
       IN /\ treeOf(again, root'[b]) = new
          /\ ids(again, root'[b]) = ids(heap', root'[b])
          /\ View(again, root'[b]) = View(heap', root'[b])
          /\ topLevelHits(old, s.id) # {} =>
               \E i \in topLevelHits(old, s.id) : new = [old EXCEPT ![i] = s]
          /\ (last.op = "use" /\ last.b = b /\ last.section = s) =>
               /\ new = old
               /\ View(heap', root'[b]) = View(heap, root[b])]_vars

\* use(a), use(b), use(a2): a2 took index 1 from a and b stayed at index 2.
UseIsIdempotentWitness ==
  /\ last = [op |-> "use", b |-> "B", section |-> secA2]
  /\ treeOf(heap, root["B"]) = <<secA2, secB>>

\* use(b), use(a2), use(a2): the second call in a row with the same section.
UseTwiceWitness ==
  /\ last = [op |-> "use", b |-> "B", section |-> secA2]
  /\ steps = 3
  /\ treeOf(heap, root["B"]) = <<secB, secA2>>

(* C17: right after F = B.fork(), ids() of F is ids() of B, in order and    *)
(* contents, ids() of B is what it was before the call, and for every       *)
(* context and format F builds the prompt, included and excluded B builds.  *)
ForkRoundTrip ==
  [][last'.op = "fork" =>
       /\ ids(heap', root'["F"]) = ids(heap, root["B"])
       /\ ids(heap', root'["B"]) = ids(heap, root["B"])
       /\ View(heap', root'["F"]).meta = View(heap', root'["B"]).meta]_vars

\* F is the fork of [a, g: [a2, oneOf(b, c), h: [b]]].
ForkRoundTripWitness ==
  /\ last.op = "fork"
  /\ ids(heap, root["F"]) = <<"a", "g", "a", "b", "c", "h", "b">>
  /\ treeOf(heap, root["F"]) = treeOf(heap, root["B"])
  /\ root["F"] # root["B"]

(* C18: ids() returns the ids met by a depth-first, left-to-right walk: a   *)
(* Section gives its id, a Group its own id and right after it the ids of   *)
(* its children, an alternative-set the ids of all its candidates in order  *)
(* and none of its own; the call changes no tree.                           *)
IdsAreDepthFirst ==
  [][last'.op = "ids" =>
       /\ out'.value = depthFirstIds(treeOf(heap, root[last'.b]))
       /\ TreesUnchanged]_vars

\* ids() of [oneOf(b, t), g: [a2, oneOf(b, c), h: [b]]].
IdsAreDepthFirstWitness ==
  /\ last.op = "ids"
  /\ out.value = <<"b", "t", "g", "a", "b", "c", "h", "b">>

-----------------------------------------------------------------------------
(* Vocabulary of the metadata of trees without guards                       *)

\* No section of the tree, candidates included, has a guard, and none
\* renders the empty string under ctx.
NoGuardNoEmptyRender(t, ctx) ==
  LET all == plainSections(t) \o candidateSections(t)
  IN \A i \in 1..Len(all) :
       /\ all[i].when = "absent"
       /\ ~renderThrows(all[i], ctx)
       /\ callRender(all[i], ctx) # <<>>

\* ids() without the ids of the Group nodes and without every candidate of
\* an alternative-set but the first.
RECURSIVE sectionAndFirstCandidateIds(_)
sectionAndFirstCandidateIds(t) ==
  IF t = <<>> THEN <<>>
  ELSE LET n == Head(t)
       IN (IF isSection(n) THEN <<n.id>>
           ELSE IF isGroup(n) THEN sectionAndFirstCandidateIds(n.children)
           ELSE IF n.candidates = <<>> THEN <<>>
           ELSE <<n.candidates[1].id>>)
          \o sectionAndFirstCandidateIds(Tail(t))

\* The ids of the candidates after the first of every alternative-set.
RECURSIVE laterCandidateIds(_)
laterCandidateIds(t) ==
  IF t = <<>> THEN <<>>
  ELSE LET n == Head(t)
       IN (IF isSection(n) THEN <<>>
           ELSE IF isGroup(n) THEN laterCandidateIds(n.children)
           ELSE [i \in 1..(Len(n.candidates) - 1) |-> n.candidates[i + 1].id])
          \o laterCandidateIds(Tail(t))

(* C19 as claimed: for every tree in which no section has a guard and none  *)
(* renders the empty string, groups and alternative-sets allowed,           *)
(* buildWithMeta returns included equal to ids() and an empty excluded.     *)
IncludedIsIds ==
  (Built /\ NoGuardNoEmptyRender(BuiltTree, last.ctx)) =>
    /\ out.included = ids(heap, root[last.b])
    /\ out.excluded = <<>>

(* C19 amended: for every such tree buildWithMeta returns included equal to *)
(* ids() without the ids of the Group nodes and without the candidates      *)
(* after the first of each alternative-set, in the same order, and excluded *)
(* equal to the ids of those later candidates, in order.                    *)
IncludedIsIdsOfSectionsAndFirstCandidates ==
  (Built /\ NoGuardNoEmptyRender(BuiltTree, last.ctx)) =>
    LET t == BuiltTree
        all == ids(heap, root[last.b])
    IN /\ out.included = sectionAndFirstCandidateIds(t)
       /\ out.excluded = laterCandidateIds(t)
       /\ IsSubseq(out.included, all)
       /\ Len(out.included) + Len(out.excluded) + Len(groupIds(t)) = Len(all)

\* [a, g: [oneOf(b, a)]] under flag = TRUE: ids() is a, g, b, a.
IncludedIsIdsWitness ==
  /\ Built /\ last.ctx = [flag |-> TRUE]
  /\ NoGuardNoEmptyRender(BuiltTree, last.ctx)
  /\ ids(heap, root[last.b]) = <<"a", "g", "b", "a">>
  /\ out.included = <<"a", "b">> /\ out.excluded = <<"a">>

(* C20: has(ref), for an id string or an object with an id, returns true    *)
(* exactly when a Section, a Group or an alternative-set candidate of the   *)
(* tree, at any depth, carries the id, that is when the id occurs in ids(); *)
(* otherwise it returns false; the call changes no tree.                    *)
HasIffInIds ==
  [][last'.op = "has" =>
       LET b == last'.b
           id == refId(last'.ref)
           t == treeOf(heap, root[b])
           groups == groupIds(t)
       IN /\ out'.value \in BOOLEAN
          /\ out'.value <=> Count(ids(heap, root[b]), id) > 0
          /\ out'.value <=>
               id \in PlainIds(t) \cup CandidateIds(t)
                        \cup {groups[i] : i \in 1..Len(groups)}
          /\ TreesUnchanged]_vars

\* has(b1) with the object on [a, g: [oneOf(b, a)]]: b is a candidate inside
\* a group and nothing else.
HasIffInIdsWitness ==
  /\ last.op = "has" /\ last.ref = secB /\ out.value = TRUE
  /\ treeOf(heap, root[last.b])
       = << secA, [id |-> "g",
                   children |-> << [candidates |-> <<secB, secA>>] >>] >>

\* has('h') on [a, g: []]: no node carries h.
HasAbsentWitness ==
  /\ last.op = "has" /\ last.ref = [str |-> "h"] /\ out.value = FALSE
  /\ ids(heap, root[last.b]) = <<"a", "g">>

-----------------------------------------------------------------------------
(* A second specification: the caller of group keeps the child builder      *)
(* that configure was handed (builder K) and goes on calling it, and group  *)
(* ids may repeat the id of a nested group.                                 *)

\* The builders the calls of this specification are made on.
ChildCallers == {"B", "K"}

ChildSections == {secA, secB}

NestedGroupIds == {"g", "h"}

\* A group call on B keeps the child builder of the call as K.
NextChild ==
  \/ \E b \in ChildCallers, section \in ChildSections : Use(b, section)
  \/ \E b \in ChildCallers, candidates \in CandidateLists :
        UseOneOf(b, candidates)
  \/ \E b \in ChildCallers, id \in NestedGroupIds, configure \in Configures :
        Group(b, id, configure, b = "B")

SpecChild == Init /\ [][NextChild]_vars

\* The tree a configure callback leaves in a fresh, empty builder.
configuredTree(configure) ==
  treeOf(configureInner(<< <<>> >>, 1, configure), 1)

\* The tree with the first Section or Group that carries the id, depth
\* first and outside alternative-sets, replaced by the node.
RECURSIVE replaceFirst(_, _, _)
replaceFirst(t, id, node) ==
  IF t = <<>> THEN <<>>
  ELSE LET n == Head(t)
       IN IF ~isOneOf(n) /\ n.id = id THEN <<node>> \o Tail(t)
          ELSE IF isGroup(n) /\ Count(addressableIds(n.children), id) > 0
            THEN <<[n EXCEPT !.children = replaceFirst(@, id, node)]>> \o Tail(t)
          ELSE <<n>> \o replaceFirst(Tail(t), id, node)

(* C21: group(id, configure) inserts the Group as use inserts a Section: a  *)
(* Section or Group that carries the id, wherever it is in the tree outside *)
(* alternative-sets, is replaced at its position by the new group and       *)
(* nothing is appended; when there is none the group is appended at the end *)
(* of the top level; the children of the group are what one run of          *)
(* configure leaves in a fresh, empty builder.                              *)
GroupInsertsAsUse ==
  [][last'.op = "group" =>
       LET b == last'.b
           old == treeOf(heap, root[b])
           new == treeOf(heap', root'[b])
           grp == [id |-> last'.id,
                   children |-> configuredTree(last'.configure)]
       IN IF Count(addressableIds(old), last'.id) > 0
            THEN new = replaceFirst(old, last'.id, grp)
            ELSE new = Append(old, grp)]_vars

(* C28: once group(id, configure) has returned, a use, useOneOf or group    *)
(* call on the child builder that configure was handed changes neither      *)
(* ids() nor any render result of the parent builder.                       *)
ChildCallsLeaveParent ==
  [][(last'.b = "K" /\ last'.op \in {"use", "useOneOf", "group"}) =>
       View(heap', root'["B"]) = View(heap, root["B"])]_vars

-----------------------------------------------------------------------------
(* Vocabulary of the ordering property                                      *)

\* `priority`, 0 when the section leaves it out.
priorityOf(s) == IF "priority" \in DOMAIN s THEN s.priority ELSE 0

\* The sorted sequence with s put after every element of priority at most
\* its own (a stable insertion).
RECURSIVE insertByPriority(_, _)
insertByPriority(sorted, s) ==
  IF sorted = <<>> THEN <<s>>
  ELSE IF priorityOf(Head(sorted)) <= priorityOf(s)
    THEN <<Head(sorted)>> \o insertByPriority(Tail(sorted), s)
  ELSE <<s>> \o sorted

\* A stable sort by ascending priority.
RECURSIVE sortByPriority(_)
sortByPriority(sections) ==
  IF sections = <<>> THEN <<>>
  ELSE insertByPriority(sortByPriority(SubSeq(sections, 1, Len(sections) - 1)),
                        sections[Len(sections)])

(* C22: in the output of build the sections come in ascending priority      *)
(* (default 0), sections of equal priority in insertion order, and          *)
(* buildWithMeta reports included in that order; stated for trees made of   *)
(* Sections only.                                                           *)
PriorityOrdersOutput ==
  (Built /\ BuiltFormat = "text"
         /\ \A i \in 1..Len(BuiltTree) : isSection(BuiltTree[i])) =>
    LET inc == sortByPriority(includedSections(BuiltTree, last.ctx))
    IN /\ out.included = [i \in 1..Len(inc) |-> inc[i].id]
       /\ out.prompt
            = trim(join([i \in 1..Len(inc) |-> callRender(inc[i], last.ctx)],
                        BlankLine))

-----------------------------------------------------------------------------
(* Vocabulary of the pruning properties                                     *)

\* Ids of the Groups of a tree that have no children, depth first.
RECURSIVE emptyGroupIds(_)
emptyGroupIds(t) ==
  IF t = <<>> THEN <<>>
  ELSE LET n == Head(t)
       IN (IF isGroup(n)
             THEN (IF n.children = <<>> THEN <<n.id>>
                   ELSE emptyGroupIds(n.children))
           ELSE <<>>)
          \o emptyGroupIds(Tail(t))

\* The Sections and alternative-sets of a tree, depth first, each
\* alternative-set as one node.
RECURSIVE leaves(_)
leaves(t) ==
  IF t = <<>> THEN <<>>
  ELSE LET n == Head(t)
       IN (IF isGroup(n) THEN leaves(n.children) ELSE <<n>>)
          \o leaves(Tail(t))

\* The leaves that stay when the id is taken away: no Section with the id,
\* nothing of a Group with the id, every alternative-set with its other
\* candidates in their order, and no alternative-set left without one.
RECURSIVE remainingLeaves(_, _)
remainingLeaves(t, id) ==
  IF t = <<>> THEN <<>>
  ELSE LET n == Head(t)
       IN (IF isSection(n) THEN (IF n.id = id THEN <<>> ELSE <<n>>)
           ELSE IF isGroup(n)
             THEN (IF n.id = id THEN <<>> ELSE remainingLeaves(n.children, id))
           ELSE LET rest == SelectSeq(n.candidates, LAMBDA c : c.id # id)
                IN IF rest = <<>> THEN <<>> ELSE <<[candidates |-> rest]>>)
          \o remainingLeaves(Tail(t), id)

(* C23: groups never persist empty: a Group whose last remaining child is   *)
(* removed by without(ref) is itself dropped, so a tree that held no Group  *)
(* without children holds none after the call, and has and ids() no longer  *)
(* know the id of such a group.                                             *)
WithoutLeavesNoEmptyGroup ==
  [][last'.op = "without" =>
       LET old == treeOf(heap, root[last'.b])
           new == treeOf(heap', root'[last'.b])
       IN emptyGroupIds(old) = <<>> => emptyGroupIds(new) = <<>>]_vars

(* C24: when without(ref) removes the last remaining candidate of an        *)
(* alternative-set the alternative-set node is dropped from the tree; an    *)
(* alternative-set that keeps a candidate stays at its position, among the  *)
(* nodes that stay, with its remaining candidates in their order.           *)
WithoutPrunesAltSets ==
  [][last'.op = "without" =>
       LET old == treeOf(heap, root[last'.b])
           new == treeOf(heap', root'[last'.b])
           sets == altSets(new)
       IN /\ leaves(new) = remainingLeaves(old, refId(last'.ref))
          /\ \A k \in 1..Len(sets) : sets[k] # <<>>]_vars

\* group(g, [oneOf(b, a)]), without(a), without(b): the alternative-set lost
\* its last candidate and is gone.
WithoutPrunesAltSetsWitness ==
  /\ last = [op |-> "without", b |-> "B", ref |-> secB]
  /\ steps = 3
  /\ treeOf(heap, root["B"]) = << [id |-> "g", children |-> <<>>] >>

\* without(a) on [x, oneOf(a2, a, c)]: the alternative-set keeps c and its
\* place after x.
WithoutKeepsAltSetWitness ==
  /\ last = [op |-> "without", b |-> "B", ref |-> [str |-> "a"]]
  /\ leaves(treeOf(heap, root["B"])) = << secB, [candidates |-> <<secC>>] >>

-----------------------------------------------------------------------------
GuardShortCircuits ==
  last.op = "buildWithMeta" =>
    \A i \in 1..Len(calls) :
      LET s == calls[i][2]
      IN (calls[i][1] = "render" /\ s.when # "absent") =>
           /\ i > 1 /\ calls[i - 1] = <<"when", s>>
           /\ ~whenThrows(s, last.ctx)
           /\ callWhen(s, last.ctx)

\* [a2, oneOf(a2, a, c)] under flag = FALSE: the guard of a2 is asked twice
\* and fails twice, the render of a2 is never invoked.
GuardShortCircuitsWitness ==
  /\ Built /\ last.ctx = [flag |-> FALSE]
  /\ BuiltTree = << secA2, [candidates |-> <<secA2, secA, secC>>] >>
  /\ calls = << <<"when", secA2>>, <<"when", secA2>>, <<"render", secA>> >>

(* C27: useOneOf(candidates...) appends one alternative-set node with the   *)
(* candidates in the given order at the end of the top level and changes no *)
(* other node, whatever ids the candidates carry; use(section) with an id   *)
(* that only candidates carry appends the section and leaves the candidate. *)
UseOneOfAlwaysAppends ==
  [][/\ last'.op = "useOneOf" =>
          treeOf(heap', root'[last'.b])
            = Append(treeOf(heap, root[last'.b]),
                     [candidates |-> last'.candidates])
     /\ last'.op = "use" =>
          LET old == treeOf(heap, root[last'.b])
              id == last'.section.id
          IN (id \in CandidateIds(old) /\ Count(addressableIds(old), id) = 0) =>
               treeOf(heap', root'[last'.b]) = Append(old, last'.section)]_vars

\* useOneOf(a2, a, c) twice after use(a): the section a and the first
\* alternative-set stay, a second alternative-set is appended.
UseOneOfAlwaysAppendsWitness ==
  /\ last.op = "useOneOf"
  /\ treeOf(heap, root[last.b])
       = << secA, [candidates |-> <<secA2, secA, secC>>],
            [candidates |-> <<secA2, secA, secC>>] >>

\* use(b1) on [oneOf(b, t)]: b1 is appended, the candidate b stays.
UseBesideCandidateWitness ==
  /\ last = [op |-> "use", b |-> "B", section |-> secB]
  /\ treeOf(heap, root["B"]) = << [candidates |-> <<secB, secT>>], secB >>

-----------------------------------------------------------------------------
(* Vocabulary of the evaluation-order properties                            *)

otherFormat(format) == IF format = "text" THEN "xml" ELSE "text"

\* The guard and render invocations a pass over the tree makes when nothing
\* throws: every Section once, the candidates of an alternative-set up to
\* the first that is included, depth first and left to right.
RECURSIVE expectedCalls(_, _)
expectedCalls(t, ctx) ==
  IF t = <<>> THEN <<>>
  ELSE LET n == Head(t)
       IN (IF isSection(n) THEN evaluations(<<n>>, ctx)
           ELSE IF isGroup(n) THEN expectedCalls(n.children, ctx)
           ELSE evaluations(SubSeq(n.candidates, 1,
                                   IF Winner(n.candidates, ctx) = 0
                                     THEN Len(n.candidates)
                                     ELSE Winner(n.candidates, ctx)), ctx))
          \o expectedCalls(Tail(t), ctx)

IsPrefix(s, t) == Len(s) <= Len(t) /\ SubSeq(t, 1, Len(s)) = s

(* C29: for every tree and context, buildWithMeta in text format and in xml *)
(* format return the same included and the same excluded list and invoke    *)
(* the same guards and renders in the same order.                           *)
MetadataIsFormatIndependent ==
  (last.op = "buildWithMeta" /\ BuiltFormat \in Formats) =>
    LET other == [format |-> otherFormat(BuiltFormat)]
        pass == renderPass(heap, root[last.b], last.ctx, other)
        meta == buildWithMeta(heap, root[last.b], last.ctx, other)
    IN /\ pass.calls = calls
       /\ IF Built
            THEN /\ "prompt" \in DOMAIN meta
                 /\ meta.included = out.included
                 /\ meta.excluded = out.excluded
            ELSE meta = out

\* [a, g: [a2, oneOf(b, c), h: [b]]] under flag = FALSE in xml; the text
\* prompt is another string, the lists are the same.
FormatIndependenceWitness ==
  /\ Built /\ BuiltFormat = "xml" /\ last.ctx = [flag |-> FALSE]
  /\ out.included = <<"a", "c">> /\ out.excluded = <<"a", "b", "b">>
  /\ out.prompt = Tagged("a", <<"x">>) \o BlankLine
                    \o Tagged("g", Tagged("c", <<"w">>))
  /\ buildWithMeta(heap, root[last.b], last.ctx, [format |-> "text"]).prompt
       = <<"x", "\n", "\n", "w">>

(* C30: in one buildWithMeta call the guard and the render of every Section *)
(* occurrence are each invoked at most once, the guard before the render,   *)
(* and the nodes are evaluated depth first, left to right: the invocations  *)
(* of a pass that returns are the expected ones in order, those of a pass   *)
(* that throws are a prefix of them.                                        *)
EachSectionEvaluatedOnce ==
  last.op = "buildWithMeta" =>
    LET t == BuiltTree
        expected == expectedCalls(t, last.ctx)
    IN /\ IsPrefix(calls, expected)
       /\ Built => calls = expected
       /\ \A i \in 1..Len(calls) :
            Count(calls, calls[i]) <= Occurrences(t, calls[i][2])

\* [a, g: [a2, oneOf(b, c), h: [b]]] under flag = FALSE.
EachSectionEvaluatedOnceWitness ==
  /\ Built /\ last.ctx = [flag |-> FALSE]
  /\ groupIds(BuiltTree) = <<"g", "h">>
  /\ calls = << <<"render", secA>>, <<"when", secA2>>, <<"render", secB>>,
                <<"when", secC>>, <<"render", secC>>, <<"render", secB>> >>

====
